---- MODULE Spec2Model ----
(***************************************************************************)
(* Model of faust/stores/rocksdb.py: the RocksDB-backed table store.       *)
(*                                                                         *)
(* The store object has one field, _db (the cached engine handle or None). *)
(* The engine (rocksdb.DB) persists a key/value mapping in the directory   *)
(* self.path; the model keeps that directory as path_exists/contents.      *)
(* Keys and values are byte strings; the model uses 1..NumKeys for keys,   *)
(* ordered as the engine orders bytes, and 1..NumValues for values.        *)
(* A handle is released (and the engine closed) when its last reference    *)
(* is dropped, which in reset_state is the assignment self._db = None.     *)
(*                                                                         *)
(* Spec and the Spec* specifications after it run the methods of one       *)
(* caller as single steps; SpecThreads runs the methods of several threads *)
(* statement by statement, with the engines they hold in `engines`.        *)
(***************************************************************************)
EXTENDS Integers, Sequences, FiniteSets, TLC

\* ---- bounds -------------------------------------------------------------
NumKeys == 2
NumValues == 2
MaxBatch == 2
MaxResets == 2
MaxOpens == 4
NumPartitions == 2
MaxOffset == 2
NumThreads == 2

\* ---- values of the program ----------------------------------------------
None == 0

Keys == 1..NumKeys
Values == 1..NumValues
Events == Keys \X Values
Batches == UNION {[1..n -> Events] : n \in 0..MaxBatch}

\* the callables handed to apply_changelog_batch as to_key / to_value
IdKey == [k \in Keys |-> k]
IdValue == [v \in Values |-> v]
NextKey == [k \in Keys |-> (k % NumKeys) + 1]
NextValue == [v \in Values |-> (v % NumValues) + 1]
KeyTransforms == {IdKey, NextKey}
ValueTransforms == {IdValue, NextValue}

EmptyContents == [k \in Keys |-> None]
AllContents == [Keys -> Values \cup {None}]

\* the topic partitions whose changelog feeds the table, and their offsets
Partitions == 1..NumPartitions
Offsets == 1..MaxOffset
NoOffsets == [tp \in Partitions |-> None]

\* the threads that call the store, and the engine handles they can hold
Threads == 1..NumThreads
Handles == 1..MaxOpens

VARIABLES
    _db,          \* self._db: None, or the identity of the open engine handle
    path_exists,  \* whether the directory self.path exists on disk
    contents,     \* what the engine at self.path holds: key -> value or None
    opens,        \* number of engines opened so far (rocksdb.DB constructed)
    resets,       \* number of reset_state calls so far
    frame,        \* the apply_changelog_batch call in flight (stepwise runs)
    last,         \* the most recently completed operation and its outcome
    checkpoints,  \* app.checkpoints: partition -> recorded offset or None
    changelog,    \* the changelog records the recovery flow has applied
    threads,      \* each thread's call in flight: position and locals
    engines       \* every rocksdb.DB object constructed so far

\* the collaborators and the threaded view, which the one-step operations
\* of a single caller leave alone
env == <<checkpoints, changelog, threads, engines>>

vars == <<_db, path_exists, contents, opens, resets, frame, last,
          checkpoints, changelog, threads, engines>>

\* ---- the engine (rocksdb.DB) as the store calls it ----------------------

\* rocksdb.DB(path, Options(create_if_missing=True)): the directory exists
\* afterwards; a directory created by the open holds nothing.
_open_db_truncating(exists, c) ==
    [path_exists |-> TRUE, contents |-> EmptyContents]

_open_db(exists, c) ==
    [path_exists |-> TRUE, contents |-> IF exists THEN c ELSE EmptyContents]

dbAlwaysOpens(cur, n) ==
    [handle |-> n + 1, opened |-> TRUE]

\* property db: open on first access, cached handle afterwards
db(cur, n) ==
    IF cur = None
    THEN [handle |-> n + 1, opened |-> TRUE]
    ELSE [handle |-> cur, opened |-> FALSE]

\* db.get(key)
EngineGet(c, key) == c[key]

\* db.put(key, value)
EnginePut(c, key, value) == [c EXCEPT ![key] = value]

EngineDeleteFrom(c, key) == [k \in Keys |-> IF k >= key THEN None ELSE c[k]]

\* db.delete(key): a missing key is not an error
EngineDelete(c, key) == [c EXCEPT ![key] = None]

\* db.key_may_exist(key)[0]: never False for a key that is present
KeyMayExist(c, key) == IF c[key] # None THEN {TRUE} ELSE {TRUE, FALSE}

\* db.iterkeys() after seek_to_first(): the present keys in ascending order
RECURSIVE IterKeysFrom(_, _)
IterKeysFrom(c, k) ==
    IF k > NumKeys THEN <<>>
    ELSE (IF c[k] # None THEN <<k>> ELSE <<>>) \o IterKeysFrom(c, k + 1)

IterKeys(c) == IterKeysFrom(c, 1)

\* db.itervalues() and db.iteritems() after seek_to_first(): the values, and
\* the (key, value) pairs, of the present keys in the same ascending order
IterValues(c) == [i \in 1..Len(IterKeys(c)) |-> c[IterKeys(c)[i]]]

IterItems(c) ==
    [i \in 1..Len(IterKeys(c)) |-> <<IterKeys(c)[i], c[IterKeys(c)[i]]>>]


\* ---- rocksdb.WriteBatch and db.write ------------------------------------

put_args_transformed(event, to_key, to_value) ==
    <<to_key[event[1]], to_value[event[2]]>>

\* the arguments of w.put for one event: the message's own key and value
put_args(event, to_key, to_value) ==
    <<event[1], event[2]>>

batch_put_direct(st, event, to_key, to_value) ==
    [contents |-> EnginePut(st.contents, event[1], event[2]), w |-> st.w]

\* one turn of the loop `for event in batch: w.put(...)`: the put is kept in
\* the WriteBatch w and the engine is not touched
batch_put(st, event, to_key, to_value) ==
    [contents |-> st.contents,
     w |-> Append(st.w, put_args(event, to_key, to_value))]

RECURSIVE batch_loop(_, _, _, _, _)

batch_loop_reversed(st, batch, i, to_key, to_value) ==
    IF i > Len(batch) THEN st
    ELSE batch_put(batch_loop(st, batch, i + 1, to_key, to_value),
                   batch[i], to_key, to_value)

\* the whole loop, from event i on
batch_loop(st, batch, i, to_key, to_value) ==
    IF i > Len(batch) THEN st
    ELSE batch_loop(batch_put(st, batch[i], to_key, to_value),
                    batch, i + 1, to_key, to_value)

WriteBatchMerge(c, key, value) ==
    [c EXCEPT ![key] = IF c[key] = None THEN value ELSE (c[key] % NumValues) + 1]

\* the effect of one put of a committed WriteBatch
WriteBatchPut(c, key, value) == EnginePut(c, key, value)

\* a committed WriteBatch takes effect in the order of its puts
RECURSIVE ApplyWriteBatch(_, _, _)
ApplyWriteBatch(c, w, i) ==
    IF i > Len(w) THEN c
    ELSE ApplyWriteBatch(WriteBatchPut(c, w[i][1], w[i][2]), w, i + 1)

\* db.write(w): all of w, or an exception and nothing of w
EngineWrite(c, w, ok) == IF ok THEN ApplyWriteBatch(c, w, 1) ELSE c

\* ---- bookkeeping ---------------------------------------------------------

NoOp ==
    [op |-> "none", key |-> None, val |-> None, batch |-> <<>>,
     w |-> <<>>, probe |-> FALSE, res |-> "ok", ret |-> None,
     found |-> FALSE, handle |-> None, opened |-> FALSE, follows |-> "other",
     seq |-> <<>>, tp |-> None, cause |-> "none", detached |-> FALSE]

\* how an operation relates to the one completed just before it: "set" or
\* "del" when that one was a set or delete of the same key, "batch" when it
\* was a successful apply of the same batch, "reset" for a reset_state of a
\* store that held entries
Follows(key, batch) ==
    CASE last.op = "reset" /\ last.ret > 0 -> "reset"
      [] last.op = "set" /\ last.key = key -> "set"
      [] last.op = "del" /\ last.key = key -> "del"
      [] last.op = "batch" /\ last.res = "ok" /\ last.batch = batch
            /\ batch # <<>> -> "batch"
      [] OTHER -> "other"

\* no batch in hand and no apply_changelog_batch in flight
NoFrame ==
    [pc |-> "idle", batch |-> <<>>, w |-> <<>>,
     to_key |-> IdKey, to_value |-> IdValue]

\* a thread that is not inside a call of the store
NoCall ==
    [pc |-> "idle", op |-> "none", key |-> None, val |-> None,
     handle |-> None]

\* a rocksdb.DB object not constructed yet
NoEngine == [state |-> "unused", attached |-> FALSE, data |-> EmptyContents]

\* what reading self.db does to the store: the handle it returns and the
\* directory as the lazy open leaves it
Access ==
    LET a == db(_db, opens)
        o == IF a.opened THEN _open_db(path_exists, contents)
             ELSE [path_exists |-> path_exists, contents |-> contents]
    IN  [handle |-> a.handle, opened |-> a.opened,
         path_exists |-> o.path_exists, contents |-> o.contents]

CanAccess == db(_db, opens).opened => opens < MaxOpens

Accessed(a) ==
    /\ _db' = a.handle
    /\ opens' = IF a.opened THEN opens + 1 ELSE opens
    /\ path_exists' = a.path_exists

\* ---- state after construction -------------------------------------------

\* __init__ sets _db = None and opens nothing; the directory may be missing
\* or left by an earlier run of the application with any contents
Init ==
    /\ _db = None
    /\ path_exists \in BOOLEAN
    /\ contents \in AllContents
    /\ (~path_exists => contents = EmptyContents)
    /\ opens = 0
    /\ resets = 0
    /\ frame = NoFrame
    /\ last = NoOp
    /\ checkpoints = NoOffsets
    /\ changelog = <<>>
    /\ threads = [t \in Threads |-> NoCall]
    /\ engines = [h \in Handles |-> NoEngine]

\* ---- operations, each as one step ---------------------------------------

_get(key) ==
    /\ CanAccess
    /\ LET a == Access IN
        /\ Accessed(a)
        /\ contents' = a.contents
        /\ last' = [NoOp EXCEPT !.op = "get", !.key = key,
                       !.ret = EngineGet(a.contents, key),
                       !.handle = a.handle, !.opened = a.opened,
                       !.follows = Follows(key, <<>>)]
    /\ UNCHANGED <<resets, frame, env>>

_set_if_absent(key, value) ==
    /\ CanAccess
    /\ LET a == Access IN
        /\ Accessed(a)
        /\ contents' = IF a.contents[key] = None
                       THEN EnginePut(a.contents, key, value) ELSE a.contents
        /\ last' = [NoOp EXCEPT !.op = "set", !.key = key, !.val = value,
                       !.handle = a.handle, !.opened = a.opened,
                       !.follows = Follows(key, <<>>)]
    /\ UNCHANGED <<resets, frame, env>>

_set(key, value) ==
    /\ CanAccess
    /\ LET a == Access IN
        /\ Accessed(a)
        /\ contents' = EnginePut(a.contents, key, value)
        /\ last' = [NoOp EXCEPT !.op = "set", !.key = key, !.val = value,
                       !.handle = a.handle, !.opened = a.opened,
                       !.follows = Follows(key, <<>>)]
    /\ UNCHANGED <<resets, frame, env>>

_del(key) ==
    /\ CanAccess
    /\ LET a == Access IN
        /\ Accessed(a)
        /\ contents' = EngineDelete(a.contents, key)
        /\ last' = [NoOp EXCEPT !.op = "del", !.key = key,
                       !.handle = a.handle, !.opened = a.opened,
                       !.follows = Follows(key, <<>>)]
    /\ UNCHANGED <<resets, frame, env>>

_contains_probe_only(probe, lookup) == probe

_contains_negated_probe(probe, lookup) ==
    IF ~probe THEN lookup # None ELSE FALSE

\* the value _contains returns, from the probe's answer and the lookup's
_contains_returns(probe, lookup) ==
    IF probe THEN lookup # None ELSE FALSE

_contains(key) ==
    /\ CanAccess
    /\ LET a == Access IN
        /\ Accessed(a)
        /\ contents' = a.contents
        /\ \E probe \in KeyMayExist(a.contents, key) :
             last' = [NoOp EXCEPT !.op = "contains", !.key = key,
                         !.probe = probe,
                         !.found = _contains_returns(probe,
                                        EngineGet(a.contents, key)),
                         !.handle = a.handle, !.opened = a.opened,
                       !.follows = Follows(key, <<>>)]
    /\ UNCHANGED <<resets, frame, env>>

_size_unpositioned(c) == 0

\* the value _size returns: the count of what iterkeys yields from the
\* first key on
_size_returns(c) == Len(IterKeys(c))

_size ==
    /\ CanAccess
    /\ LET a == Access IN
        /\ Accessed(a)
        /\ contents' = a.contents
        /\ last' = [NoOp EXCEPT !.op = "size",
                       !.ret = _size_returns(a.contents),
                       !.handle = a.handle, !.opened = a.opened,
                       !.follows = Follows(None, <<>>)]
    /\ UNCHANGED <<resets, frame, env>>

\* how a drained iteration relates to the operation completed just before
\* it: "set" when that one was a set of a key below a key the store holds
FollowsIter ==
    IF last.op = "set" /\ \E k \in Keys : k > last.key /\ contents[k] # None
    THEN "set" ELSE Follows(None, <<>>)

_iterkeys_seek_to_last(c) ==
    IF IterKeys(c) = <<>> THEN <<>> ELSE <<IterKeys(c)[Len(IterKeys(c))]>>

\* what _iterkeys yields when drained
_iterkeys_yields(c) == IterKeys(c)

_iterkeys ==
    /\ CanAccess
    /\ LET a == Access IN
        /\ Accessed(a)
        /\ contents' = a.contents
        /\ last' = [NoOp EXCEPT !.op = "iterkeys",
                       !.seq = _iterkeys_yields(a.contents),
                       !.handle = a.handle, !.opened = a.opened,
                       !.follows = FollowsIter]
    /\ UNCHANGED <<resets, frame, env>>

_itervalues_from_iterkeys(c) == IterKeys(c)

\* what _itervalues yields when drained
_itervalues_yields(c) == IterValues(c)

_itervalues ==
    /\ CanAccess
    /\ LET a == Access IN
        /\ Accessed(a)
        /\ contents' = a.contents
        /\ last' = [NoOp EXCEPT !.op = "itervalues",
                       !.seq = _itervalues_yields(a.contents),
                       !.handle = a.handle, !.opened = a.opened,
                       !.follows = FollowsIter]
    /\ UNCHANGED <<resets, frame, env>>

\* what _iteritems yields when drained
_iteritems_yields(c) == IterItems(c)

_iteritems ==
    /\ CanAccess
    /\ LET a == Access IN
        /\ Accessed(a)
        /\ contents' = a.contents
        /\ last' = [NoOp EXCEPT !.op = "iteritems",
                       !.seq = _iteritems_yields(a.contents),
                       !.handle = a.handle, !.opened = a.opened,
                       !.follows = FollowsIter]
    /\ UNCHANGED <<resets, frame, env>>

apply_changelog_batch(batch, to_key, to_value) ==
    /\ CanAccess
    /\ LET st == batch_loop([contents |-> contents, w |-> <<>>],
                            batch, 1, to_key, to_value)
           a == db(_db, opens)
           o == IF a.opened THEN _open_db(path_exists, st.contents)
                ELSE [path_exists |-> path_exists, contents |-> st.contents]
       IN
        /\ _db' = a.handle
        /\ opens' = IF a.opened THEN opens + 1 ELSE opens
        /\ path_exists' = o.path_exists
        /\ \E ok \in BOOLEAN :
            /\ contents' = EngineWrite(o.contents, st.w, ok)
            /\ last' = [NoOp EXCEPT !.op = "batch", !.batch = batch,
                           !.w = st.w,
                           !.res = IF ok THEN "ok" ELSE "raised",
                           !.handle = a.handle, !.opened = a.opened,
                           !.follows = Follows(None, batch)]
    /\ UNCHANGED <<resets, frame, env>>

\* shutil.rmtree(path): removes the tree, FileNotFoundError when it is missing
rmtree_elsewhere(exists, c) ==
    [path_exists |-> exists, contents |-> c, raised |-> "none"]

rmtree(exists, c) ==
    [path_exists |-> FALSE, contents |-> EmptyContents,
     raised |-> IF exists THEN "none" ELSE "FileNotFoundError"]

\* with suppress(FileNotFoundError): the exception that leaves the block
suppress(exc) == IF exc = "FileNotFoundError" THEN "none" ELSE exc

reset_state ==
    /\ resets < MaxResets
    /\ LET r == rmtree(path_exists, contents) IN
        /\ _db' = None
        /\ path_exists' = r.path_exists
        /\ contents' = r.contents
        /\ last' = [NoOp EXCEPT !.op = "reset",
                       !.ret = Len(IterKeys(contents)),
                       !.res = IF suppress(r.raised) = "none"
                               THEN "ok" ELSE "raised"]
    /\ resets' = resets + 1
    /\ UNCHANGED <<opens, frame, env>>

\* app.checkpoints.get_offset(tp): what the checkpoint manager holds for tp
get_offset(cp, tp) == cp[tp]

persisted_offset_first_partition(cp, tp) == get_offset(cp, 1)

\* the value persisted_offset returns
persisted_offset_returns(cp, tp) == get_offset(cp, tp)

persisted_offset(tp) ==
    /\ last' = [NoOp EXCEPT !.op = "persisted_offset", !.tp = tp,
                   !.ret = persisted_offset_returns(checkpoints, tp),
                   !.handle = _db]
    /\ UNCHANGED <<_db, path_exists, contents, opens, resets, frame, env>>

\* every operation of the store as one step; a changelog batch here is one
\* record (SpecBatch applies the longer ones)
Next ==
    \/ \E key \in Keys : _get(key)
    \/ \E key \in Keys, value \in Values : _set(key, value)
    \/ \E key \in Keys : _del(key)
    \/ \E key \in Keys : _contains(key)
    \/ _size
    \/ _iterkeys
    \/ _itervalues
    \/ _iteritems
    \/ \E tp \in Partitions : persisted_offset(tp)
    \/ \E event \in Events : apply_changelog_batch(<<event>>, NextKey, NextValue)
    \/ reset_state

Spec == Init /\ [][Next]_vars

\* ---- an engine that cannot be opened ---------------------------------------
\* rocksdb.DB(path, options) raises when the directory's LOCK is held by
\* another open handle, or when the files in it are damaged.

OpenFailures == {"lock held", "corruption"}

\* the exception rocksdb.DB raises for a cause
EngineRaises(cause) ==
    IF cause = "lock held" THEN "rocksdb.errors.RocksIOError"
    ELSE "rocksdb.errors.Corruption"

\* _open_db has no try/except: the engine's exception leaves it as it is
_open_db_raises(exc) == exc

db_raises_retrying(cur, exc) ==
    [handle |-> cur, attempts |-> 2, raised |-> _open_db_raises(exc)]

\* property db when _open_db raises: one call of _open_db, the assignment
\* to self._db does not happen and the exception leaves the property
db_raises(cur, exc) ==
    [handle |-> cur, attempts |-> 1, raised |-> _open_db_raises(exc)]

AccessOps ==
    {"get", "set", "del", "contains", "size", "iterkeys", "itervalues",
     "iteritems", "batch"}

\* an operation whose read of self.db finds the handle closed and the
\* engine unable to open the existing directory
open_fails ==
    /\ _db = None
    /\ path_exists
    /\ \E op \in AccessOps, cause \in OpenFailures :
         LET f == db_raises(_db, EngineRaises(cause)) IN
          /\ _db' = f.handle
          /\ last' = [NoOp EXCEPT !.op = op, !.cause = cause,
                         !.res = f.raised, !.ret = f.attempts,
                         !.handle = f.handle]
    /\ UNCHANGED <<path_exists, contents, opens, resets, frame, env>>

NextOpenFails ==
    \/ open_fails
    \/ \E key \in Keys : _get(key)
    \/ \E key \in Keys, value \in Values : _set(key, value)
    \/ reset_state

SpecOpenFails == Init /\ [][NextOpenFails]_vars

\* ---- the checkpoint manager ----------------------------------------------
\* app.checkpoints belongs to the application; the application records an
\* offset for a partition there, the store only asks for it.  The store
\* operations of these runs work on one key.

\* the application records offset for tp (not a method of the store)
set_offset(tp, offset) ==
    /\ checkpoints' = [checkpoints EXCEPT ![tp] = offset]
    /\ last' = [NoOp EXCEPT !.op = "set_offset", !.tp = tp, !.ret = offset]
    /\ UNCHANGED <<_db, path_exists, contents, opens, resets, frame,
                   changelog, threads, engines>>

\* a store on a new table directory, with any offsets recorded already
InitCheckpoints ==
    /\ _db = None
    /\ path_exists = FALSE
    /\ contents = EmptyContents
    /\ opens = 0
    /\ resets = 0
    /\ frame = NoFrame
    /\ last = NoOp
    /\ checkpoints \in [Partitions -> Offsets \cup {None}]
    /\ changelog = <<>>
    /\ threads = [t \in Threads |-> NoCall]
    /\ engines = [h \in Handles |-> NoEngine]

NextCheckpoints ==
    \/ \E tp \in Partitions : persisted_offset(tp)
    \/ \E tp \in Partitions, offset \in Offsets : set_offset(tp, offset)
    \/ _get(NumKeys)
    \/ _set(NumKeys, NumValues)
    \/ _del(NumKeys)
    \/ _size
    \/ apply_changelog_batch(<<<<NumKeys, NumValues>>>>, NextKey, NextValue)
    \/ reset_state

SpecCheckpoints == InitCheckpoints /\ [][NextCheckpoints]_vars

\* ---- recovery: batches of the changelog ----------------------------------
\* The recovery flow takes a batch from the event source, applies it (and
\* may apply it again), reads the store, and lets the batch go.

poll(key_transforms, value_transforms) ==
    /\ frame.pc = "idle"
    /\ \E batch \in Batches, to_key \in key_transforms,
          to_value \in value_transforms :
            frame' = [pc |-> "polled", batch |-> batch, w |-> <<>>,
                      to_key |-> to_key, to_value |-> to_value]
    /\ last' = NoOp
    /\ UNCHANGED <<_db, path_exists, contents, opens, resets, env>>

apply_polled ==
    /\ frame.pc = "polled"
    /\ apply_changelog_batch(frame.batch, frame.to_key, frame.to_value)

discard ==
    /\ frame.pc = "polled"
    /\ frame' = NoFrame
    /\ last' = NoOp
    /\ UNCHANGED <<_db, path_exists, contents, opens, resets, env>>

NextBatch ==
    \/ poll({NextKey}, {NextValue})
    \/ apply_polled
    \/ \E key \in Keys : _get(key)
    \/ discard

SpecBatch == Init /\ [][NextBatch]_vars

\* apply_changelog_batch under every choice of its two callables
NextTransforms ==
    \/ poll(KeyTransforms, ValueTransforms)
    \/ apply_polled
    \/ discard

SpecTransforms == Init /\ [][NextTransforms]_vars

\* ---- recovery: the changelog and its recorded offsets ----------------------
\* The recovery flow applies batches of the changelog and the application
\* records, per partition, the offset of the last record applied.  A key
\* belongs to one partition; the n-th record of a partition has offset n.

PartitionOf(key) == ((key - 1) % NumPartitions) + 1

RECURSIVE RecordsOf(_, _)
RecordsOf(log, tp) ==
    IF log = <<>> THEN <<>>
    ELSE (IF PartitionOf(Head(log)[1]) = tp THEN <<Head(log)>> ELSE <<>>)
             \o RecordsOf(Tail(log), tp)

\* the batch in hand was applied: its records are part of what the store
\* has been given
applied ==
    /\ frame.pc = "polled"
    /\ last.op = "batch"
    /\ last.res = "ok"
    /\ last.batch = frame.batch
    /\ Len(changelog) + Len(frame.batch) <= MaxOffset
    /\ changelog' = changelog \o frame.batch
    /\ frame' = NoFrame
    /\ UNCHANGED <<_db, path_exists, contents, opens, resets, last,
                   checkpoints, threads, engines>>

\* the application records, for tp, the offset of the last applied record
record_offset(tp) ==
    /\ RecordsOf(changelog, tp) # <<>>
    /\ set_offset(tp, Len(RecordsOf(changelog, tp)))

\* a store on a new table directory, nothing applied and nothing recorded
InitRecovery ==
    /\ _db = None
    /\ path_exists = FALSE
    /\ contents = EmptyContents
    /\ opens = 0
    /\ resets = 0
    /\ frame = NoFrame
    /\ last = NoOp
    /\ checkpoints = NoOffsets
    /\ changelog = <<>>
    /\ threads = [t \in Threads |-> NoCall]
    /\ engines = [h \in Handles |-> NoEngine]

NextRecovery ==
    \/ poll({IdKey}, {IdValue})
    \/ apply_polled
    \/ applied
    \/ discard
    \/ \E tp \in Partitions : record_offset(tp)
    \/ \E tp \in Partitions : persisted_offset(tp)
    \/ reset_state

SpecRecovery == InitRecovery /\ [][NextRecovery]_vars

\* ---- apply_changelog_batch statement by statement -----------------------
\* The call runs in one thread, statement by statement, and takes its events
\* from the iterable one at a time; a reader of another thread runs in
\* between.

\* w = rocksdb.WriteBatch()
batch_begin(to_key, to_value) ==
    /\ frame.pc = "idle"
    /\ frame' = [pc |-> "loop", batch |-> <<>>, w |-> <<>>,
                 to_key |-> to_key, to_value |-> to_value]
    /\ last' = NoOp
    /\ UNCHANGED <<_db, path_exists, contents, opens, resets, env>>

\* for event in batch: w.put(event.message.key, event.message.value)
batch_next_event ==
    /\ frame.pc = "loop"
    /\ Len(frame.batch) < MaxBatch
    /\ \E event \in Events :
        LET st == batch_put([contents |-> contents, w |-> frame.w],
                            event, frame.to_key, frame.to_value)
        IN
        /\ frame' = [frame EXCEPT !.batch = Append(frame.batch, event),
                                  !.w = st.w]
        /\ contents' = st.contents
    /\ UNCHANGED <<_db, path_exists, opens, resets, last, env>>

\* the iterable is exhausted: self.db.write(w)
batch_write ==
    /\ frame.pc = "loop"
    /\ CanAccess
    /\ LET a == Access IN
        /\ Accessed(a)
        /\ \E ok \in BOOLEAN :
            /\ contents' = EngineWrite(a.contents, frame.w, ok)
            /\ last' = [NoOp EXCEPT !.op = "batch", !.ret = Len(frame.w),
                           !.res = IF ok THEN "ok" ELSE "raised",
                           !.handle = a.handle, !.opened = a.opened]
    /\ frame' = NoFrame
    /\ UNCHANGED <<resets, env>>

NextSteps ==
    \/ batch_begin(NextKey, NextValue)
    \/ batch_next_event
    \/ batch_write
    \/ \E key \in Keys : _get(key)

SpecSteps == Init /\ [][NextSteps]_vars

\* ---- properties -----------------------------------------------------------

\* ---- several threads on one store -----------------------------------------
\* Each thread runs one method at a time, statement by statement.  Reading
\* self.db is three statements: the test `self._db is None`, the assignment
\* `self._db = self._open_db()` (the open, then the store) and `return
\* self._db`.  reset_state is two: `self._db = None` and the rmtree.  A
\* rocksdb.DB object stays open, and keeps the directory's lock, as long as
\* self._db or a thread refers to it; a directory removed under an open
\* engine leaves the engine with what it had loaded.

ClosedEngine == [state |-> "closed", attached |-> FALSE, data |-> EmptyContents]

Referenced(h, dbv, ths) == dbv = h \/ \E t \in Threads : ths[t].handle = h

\* the engines whose last reference is gone are closed
Collect(engs, dbv, ths) ==
    [h \in Handles |->
        IF engs[h].state = "open" /\ ~Referenced(h, dbv, ths)
        THEN ClosedEngine ELSE engs[h]]

\* the lock of the directory is held while an engine opened on it is open
LockHeld(engs) == \E h \in Handles : engs[h].state = "open"

ResetsInFlight == Cardinality({t \in Threads : threads[t].op = "reset"})

\* a thread enters get, set, apply_changelog_batch (of one record) or
\* reset_state
t_begin(t, op, key, val) ==
    /\ threads[t].pc = "idle"
    /\ (op = "reset" => resets + ResetsInFlight < MaxResets)
    /\ threads' = [threads EXCEPT ![t] =
                      [pc |-> IF op = "reset" THEN "null" ELSE "check",
                       op |-> op, key |-> key, val |-> val, handle |-> None]]
    /\ UNCHANGED <<_db, path_exists, contents, opens, resets, frame, last,
                   checkpoints, changelog, engines>>

\* if self._db is None:
t_check(t) ==
    /\ threads[t].pc = "check"
    /\ threads' = [threads EXCEPT ![t].pc =
                      IF _db = None THEN "open" ELSE "ret"]
    /\ UNCHANGED <<_db, path_exists, contents, opens, resets, frame, last,
                   checkpoints, changelog, engines>>

\* self._open_db(): raises when the lock is held, else a new engine
t_open(t) ==
    /\ threads[t].pc = "open"
    /\ IF LockHeld(engines)
       THEN LET f == db_raises(_db, EngineRaises("lock held")) IN
            /\ threads' = [threads EXCEPT ![t] = NoCall]
            /\ last' = [NoOp EXCEPT !.op = threads[t].op,
                           !.key = threads[t].key, !.cause = "lock held",
                           !.res = f.raised, !.ret = f.attempts]
            /\ UNCHANGED <<path_exists, contents, opens, engines>>
       ELSE LET o == _open_db(path_exists, contents) IN
            /\ opens < MaxOpens
            /\ opens' = opens + 1
            /\ path_exists' = o.path_exists
            /\ contents' = o.contents
            /\ engines' = [engines EXCEPT ![opens + 1] =
                              [state |-> "open", attached |-> TRUE,
                               data |-> EmptyContents]]
            /\ threads' = [threads EXCEPT ![t].pc = "assign",
                                          ![t].handle = opens + 1]
            /\ last' = last
    /\ UNCHANGED <<_db, resets, frame, checkpoints, changelog>>

\* self._db = <the engine just opened>
t_assign(t) ==
    /\ threads[t].pc = "assign"
    /\ _db' = threads[t].handle
    /\ threads' = [threads EXCEPT ![t].pc = "ret", ![t].handle = None]
    /\ engines' = Collect(engines, _db', threads')
    /\ UNCHANGED <<path_exists, contents, opens, resets, frame, last,
                   checkpoints, changelog>>

\* return self._db: the caller goes on with what the field holds now
t_ret(t) ==
    /\ threads[t].pc = "ret"
    /\ IF _db = None
       THEN /\ threads' = [threads EXCEPT ![t] = NoCall]
            /\ last' = [NoOp EXCEPT !.op = threads[t].op,
                           !.key = threads[t].key, !.res = "AttributeError"]
       ELSE /\ threads' = [threads EXCEPT ![t].pc = "call",
                                          ![t].handle = _db]
            /\ last' = last
    /\ UNCHANGED <<_db, path_exists, contents, opens, resets, frame,
                   checkpoints, changelog, engines>>

\* .get(key), .put(key, value) or .write(w) on the handle the thread holds;
\* an engine whose directory is gone answers from what it had loaded, or
\* raises
t_call(t) ==
    /\ threads[t].pc = "call"
    /\ LET th == threads[t]
           h == th.handle
           view == IF engines[h].attached THEN contents ELSE engines[h].data
           after == CASE th.op = "set" -> EnginePut(view, th.key, th.val)
                      [] th.op = "batch" ->
                           EngineWrite(view, <<<<th.key, th.val>>>>, TRUE)
                      [] OTHER -> view
       IN \E ok \in IF engines[h].attached THEN {TRUE} ELSE BOOLEAN :
            /\ threads' = [threads EXCEPT ![t] = NoCall]
            /\ contents' = IF ok /\ engines[h].attached
                           THEN after ELSE contents
            /\ engines' = Collect(
                   IF ok /\ ~engines[h].attached
                   THEN [engines EXCEPT ![h].data = after] ELSE engines,
                   _db, threads')
            /\ last' = [NoOp EXCEPT !.op = th.op, !.key = th.key,
                           !.val = th.val, !.handle = h,
                           !.res = IF ok THEN "ok" ELSE "raised",
                           !.ret = IF ok /\ th.op = "get"
                                   THEN EngineGet(view, th.key) ELSE None,
                           !.detached = ~engines[h].attached]
    /\ UNCHANGED <<_db, path_exists, opens, resets, frame, checkpoints,
                   changelog>>

\* reset_state: self._db = None
t_null(t) ==
    /\ threads[t].pc = "null"
    /\ _db' = None
    /\ threads' = [threads EXCEPT ![t].pc = "rmtree"]
    /\ engines' = Collect(engines, _db', threads')
    /\ UNCHANGED <<path_exists, contents, opens, resets, frame, last,
                   checkpoints, changelog>>

\* reset_state: the rmtree under suppress(FileNotFoundError), and the return
t_rmtree(t) ==
    /\ threads[t].pc = "rmtree"
    /\ LET r == rmtree(path_exists, contents) IN
        /\ path_exists' = r.path_exists
        /\ contents' = r.contents
        /\ engines' = [h \in Handles |->
               IF engines[h].state = "open" /\ engines[h].attached
               THEN [state |-> "open", attached |-> FALSE, data |-> contents]
               ELSE engines[h]]
        /\ last' = [NoOp EXCEPT !.op = "reset",
                       !.ret = Len(IterKeys(contents)),
                       !.res = IF suppress(r.raised) = "none"
                               THEN "ok" ELSE "raised"]
    /\ threads' = [threads EXCEPT ![t] = NoCall]
    /\ resets' = resets + 1
    /\ UNCHANGED <<_db, opens, frame, checkpoints, changelog>>

NextThreads ==
    \/ \E t \in Threads, key \in Keys : t_begin(t, "get", key, None)
    \/ \E t \in Threads, key \in Keys : t_begin(t, "set", key, NumValues)
    \/ \E t \in Threads : t_begin(t, "batch", NumKeys, NumValues)
    \/ \E t \in Threads : t_begin(t, "reset", None, None)
    \/ \E t \in Threads : t_check(t)
    \/ \E t \in Threads : t_open(t)
    \/ \E t \in Threads : t_assign(t)
    \/ \E t \in Threads : t_ret(t)
    \/ \E t \in Threads : t_call(t)
    \/ \E t \in Threads : t_null(t)
    \/ \E t \in Threads : t_rmtree(t)

SpecThreads == Init /\ [][NextThreads]_vars

TypeOK ==
    /\ _db \in 0..MaxOpens
    /\ path_exists \in BOOLEAN
    /\ contents \in AllContents
    /\ opens \in 0..MaxOpens
    /\ resets \in 0..MaxResets
    /\ (_db # None => path_exists)
    /\ (~path_exists => contents = EmptyContents)

\* C1: a get of key k made right after a set(k, v) returns v, whatever the
\* store held and whether or not the handle was open before the set.
SetThenGetReturnsValue ==
    [][(last.op = "set" /\ last'.op = "get" /\ last'.key = last.key)
         => last'.ret = last.val]_vars

\* a get that followed a set of its key on a store the set had to open
SetThenGetWitness ==
    /\ last.op = "get"
    /\ last.follows = "set"
    /\ last.ret # None
    /\ opens = 1
    /\ resets = 0

\* C2: contains(k) returns true for every key that has a value in the store.
ContainsNoFalseNegative ==
    (last.op = "contains" /\ contents[last.key] # None) => last.found

\* contains answered true for a present key after a reset and a new write
ContainsPresentWitness ==
    /\ last.op = "contains"
    /\ contents[last.key] # None
    /\ last.found
    /\ resets > 0

\* C3: contains(k) returns false for every key that has no value, both when
\* the probe said "definitely absent" and when it said "maybe present".
ContainsResolvesFalsePositive ==
    (last.op = "contains" /\ contents[last.key] = None) => ~last.found

\* the probe said "maybe present" for an absent key and contains said false
FalsePositiveWitness ==
    /\ last.op = "contains"
    /\ contents[last.key] = None
    /\ last.probe
    /\ ~last.found

\* C4: after delete(k) the key has no value and every other key has the
\* value it had; get(k) and contains(k) made right after it return absent
\* and false; delete never raises, also when k was not present.
DeleteRemovesOnlyKey ==
    [][/\ (last'.op = "del" =>
              /\ last'.res = "ok"
              /\ contents'[last'.key] = None
              /\ \A k \in Keys \ {last'.key} : contents'[k] = contents[k])
       /\ (last.op = "del" /\ last'.op = "get" /\ last'.key = last.key
              => last'.ret = None)
       /\ (last.op = "del" /\ last'.op = "contains" /\ last'.key = last.key
              => ~last'.found)]_vars

\* a get that followed the delete of a key, with another key still present
DeleteWitness ==
    /\ last.op = "get"
    /\ last.follows = "del"
    /\ last.ret = None
    /\ \E k \in Keys \ {last.key} : contents[k] # None

\* C5 as stated: the WriteBatch handed to db.write holds, for each record
\* (k, v) of the batch, the put of to_key(k) and to_value(v).
BatchAppliesTransforms ==
    (frame.pc = "polled" /\ last.op = "batch" /\ last.res = "ok") =>
        /\ Len(last.w) = Len(frame.batch)
        /\ \A i \in 1..Len(frame.batch) :
             last.w[i] = <<frame.to_key[frame.batch[i][1]],
                           frame.to_value[frame.batch[i][2]]>>

\* C5 amended: the WriteBatch handed to db.write holds, for each record of
\* the batch and in the batch's order, the put of the record's own key and
\* value, whatever to_key and to_value are.
BatchCommitsRawRecords ==
    (frame.pc = "polled" /\ last.op = "batch" /\ last.res = "ok") =>
        /\ Len(last.w) = Len(frame.batch)
        /\ \A i \in 1..Len(frame.batch) :
             last.w[i] = <<frame.batch[i][1], frame.batch[i][2]>>

\* a batch applied with transforms that change both its key and its value
RawRecordsWitness ==
    /\ frame.pc = "polled"
    /\ last.op = "batch"
    /\ last.res = "ok"
    /\ Len(frame.batch) >= 1
    /\ frame.to_key[frame.batch[1][1]] # frame.batch[1][1]
    /\ frame.to_value[frame.batch[1][2]] # frame.batch[1][2]
    /\ contents[frame.batch[1][1]] = frame.batch[1][2]

InBatch(batch, k) == \E i \in 1..Len(batch) : batch[i][1] = k

LastValue(batch, k) ==
    LET i == CHOOSE i \in 1..Len(batch) :
                 /\ batch[i][1] = k
                 /\ \A j \in (i + 1)..Len(batch) : batch[j][1] # k
    IN  batch[i][2]

\* C6: when apply_changelog_batch returns, every key of the batch has the
\* value of the batch's last record with that key (so it is present) and
\* every other key has what it had; a get made right after it returns that
\* value.
BatchLastWriterWins ==
    [][/\ (last'.op = "batch" /\ last'.res = "ok" /\ last'.batch = frame.batch =>
              \A k \in Keys :
                 contents'[k] = IF InBatch(last'.batch, k)
                                THEN LastValue(last'.batch, k)
                                ELSE contents[k])
       /\ (last.op = "batch" /\ last.res = "ok" /\ last'.op = "get"
              /\ InBatch(last.batch, last'.key)
              => last'.ret = LastValue(last.batch, last'.key))]_vars

\* a batch that writes one key twice with different values, applied to a
\* store that holds another key
LastWriterWitness ==
    /\ last.op = "batch"
    /\ last.res = "ok"
    /\ Len(last.batch) >= 2
    /\ last.batch[1][1] = last.batch[2][1]
    /\ last.batch[1][2] # last.batch[2][2]
    /\ \E k \in Keys : ~InBatch(last.batch, k) /\ contents[k] # None

\* C7: applying a batch right after a successful apply of the same batch
\* leaves the store contents as the first apply left them.
BatchReplayIdempotent ==
    [][(last.op = "batch" /\ last.res = "ok" /\ last'.op = "batch"
          /\ last'.res = "ok" /\ last'.batch = last.batch)
         => contents' = contents]_vars

\* the second of two applies of a batch that repeats a key
ReplayWitness ==
    /\ last.op = "batch"
    /\ last.res = "ok"
    /\ last.follows = "batch"
    /\ Len(last.batch) >= 2
    /\ last.batch[1][1] = last.batch[2][1]
    /\ last.batch[1][2] # last.batch[2][2]

\* C9: reset_state never raises and leaves the handle closed; the read made
\* right after it opens an engine and finds nothing: size 0, get absent,
\* contains false.
ResetLeavesEmptyStore ==
    [][/\ (last'.op = "reset" => last'.res = "ok" /\ _db' = None)
       /\ (last.op = "reset" /\ last'.op \in {"get", "contains", "size"} =>
              /\ last'.opened
              /\ path_exists'
              /\ last'.ret = 0
              /\ ~last'.found
              /\ contents' = EmptyContents)]_vars

\* a size() that followed the reset of a store that held entries
ResetWitness ==
    /\ last.op = "size"
    /\ last.follows = "reset"
    /\ last.ret = 0
    /\ last.opened

\* C10: no engine is open after construction; an engine is opened only by
\* an access made while the handle is closed; an access made while it is
\* open uses the cached handle; opens never exceed 1 + resets.
LazyOpenOncePerReset ==
    /\ (opens = 0 /\ _db = None)
    /\ [](opens <= 1 + resets)
    /\ [][/\ (opens' # opens => _db = None /\ opens' = opens + 1)
          /\ (_db # None /\ last'.op # "reset" =>
                 /\ _db' = _db
                 /\ last'.handle = _db
                 /\ ~last'.opened)]_vars

\* an access served by the cached handle of the engine opened after a reset
CachedHandleWitness ==
    /\ opens = 2
    /\ resets = 1
    /\ _db # None
    /\ last.op \in {"get", "set", "del", "contains", "size", "batch"}
    /\ ~last.opened
    /\ last.handle = _db

\* C8: a statement of apply_changelog_batch either leaves the store contents
\* as they are, or it is the db.write that succeeds and the contents take
\* all puts of the batch at once; a db.write that raises changes nothing.
BatchIsOneCommit ==
    [][frame' # frame =>
          IF frame.pc = "loop" /\ frame'.pc = "idle" /\ last'.res = "ok"
          THEN contents' = ApplyWriteBatch(contents, frame.batch, 1)
          ELSE contents' = contents]_vars

\* a reader ran after the loop took the first record of the batch, and that
\* record's value is not in the store
BatchInFlightWitness ==
    /\ frame.pc = "loop"
    /\ Len(frame.batch) >= 1
    /\ last.op = "get"
    /\ last.key = frame.batch[1][1]
    /\ last.ret # frame.batch[1][2]

\* the keys that have a value, and the one strictly ascending sequence of
\* them
PresentKeys == {k \in Keys : contents[k] # None}

Ascending(ks) == \A i, j \in 1..Len(ks) : i < j => ks[i] < ks[j]

\* C11: a keys-only iteration yields exactly the keys that have a value,
\* each once, in strictly ascending order, starting from the smallest.
IterKeysSortedPresent ==
    last.op = "iterkeys" =>
        /\ Ascending(last.seq)
        /\ {last.seq[i] : i \in 1..Len(last.seq)} = PresentKeys
        /\ Len(last.seq) = Cardinality(PresentKeys)
        /\ (PresentKeys # {} =>
               \A k \in PresentKeys : last.seq[1] <= k)

\* the keys of a store that holds every key, iterated right after the set
\* of a key below one it held, following an earlier reset
IterKeysWitness ==
    /\ last.op = "iterkeys"
    /\ last.follows = "set"
    /\ Len(last.seq) = NumKeys
    /\ resets > 0

\* C12: a key-value iteration yields (k, value of k) for exactly the keys
\* that have a value, in ascending key order whatever the order of the
\* writes; a values-only iteration yields the same values in that order.
IterItemsInKeyOrder ==
    /\ (last.op = "iteritems" =>
          /\ Len(last.seq) = Cardinality(PresentKeys)
          /\ Ascending([i \in 1..Len(last.seq) |-> last.seq[i][1]])
          /\ \A i \in 1..Len(last.seq) :
                /\ last.seq[i][1] \in PresentKeys
                /\ last.seq[i][2] = contents[last.seq[i][1]])
    /\ (last.op = "itervalues" =>
          /\ Len(last.seq) = Cardinality(PresentKeys)
          /\ \E ks \in [1..Len(last.seq) -> Keys] :
                /\ Ascending(ks)
                /\ \A i \in 1..Len(ks) :
                      ks[i] \in PresentKeys /\ last.seq[i] = contents[ks[i]])

\* values iterated right after the set of the smaller of two keys, whose
\* value is the larger one: the values come out in key order, descending
IterValuesWitness ==
    /\ last.op = "itervalues"
    /\ last.follows = "set"
    /\ Len(last.seq) >= 2
    /\ last.seq[1] > last.seq[2]

\* C13: size() is the number of distinct keys that have a value, after any
\* sequence of set, delete, batch apply and reset.
SizeCountsPresentKeys ==
    last.op = "size" => last.ret = Cardinality(PresentKeys)

\* a size() below the number of keys, on a store written after a reset
SizeWitness ==
    /\ last.op = "size"
    /\ last.ret >= 1
    /\ last.ret < NumKeys
    /\ resets > 0

\* C15: persisted_offset(p) returns what the checkpoint manager holds for p
\* (None when nothing is recorded) and leaves the handle as it is; no
\* operation of the store changes the recorded offset of any partition.
PersistedOffsetReadsCheckpoint ==
    [][/\ (last'.op = "persisted_offset" =>
              /\ last'.ret = checkpoints[last'.tp]
              /\ _db' = _db
              /\ opens' = opens
              /\ path_exists' = path_exists)
       /\ (last'.op # "set_offset" => checkpoints' = checkpoints)]_vars

\* persisted_offset asked, on a closed store that was reset, for a partition
\* with an offset recorded, while another partition holds another offset
PersistedOffsetWitness ==
    /\ last.op = "persisted_offset"
    /\ last.ret # None
    /\ \E tp \in Partitions : checkpoints[tp] # last.ret
    /\ _db = None
    /\ resets > 0

ReadOps ==
    {"get", "contains", "size", "iterkeys", "itervalues", "iteritems",
     "persisted_offset"}

\* C20: get, contains, size, the three iterations and persisted_offset
\* leave the key -> value mapping as it is; all they may change is the
\* handle, from closed to open, which creates an empty directory when
\* there is none; persisted_offset does not even do that.
ReadsLeaveContents ==
    [][last'.op \in ReadOps =>
          /\ contents' = contents
          /\ resets' = resets
          /\ checkpoints' = checkpoints
          /\ IF _db # None \/ last'.op = "persisted_offset"
             THEN _db' = _db /\ opens' = opens /\ path_exists' = path_exists
             ELSE /\ _db' # None
                  /\ opens' = opens + 1
                  /\ path_exists']_vars

\* an iteration that had to open the engine on a directory with entries
ReadOpensWitness ==
    /\ last.op = "iteritems"
    /\ last.opened
    /\ Len(last.seq) >= 1
    /\ opens = 1

PersistedOffsetReflectsStore ==
    \A tp \in Partitions :
        LET n == persisted_offset_returns(checkpoints, tp) IN
            n # None =>
                /\ n <= Len(RecordsOf(changelog, tp))
                /\ \A i \in 1..n :
                      contents[RecordsOf(changelog, tp)[i][1]] # None

\* C17: at most one apply_changelog_batch or reset_state is in flight at
\* any time, and a set or batch that holds the handle it obtained still
\* finds that handle in self._db, on the directory it was opened on, until
\* its write is done.
BatchAndResetExclusive ==
    /\ Cardinality({t \in Threads : threads[t].op \in {"batch", "reset"}}) <= 1
    /\ \A t \in Threads :
          (threads[t].pc = "call" /\ threads[t].op \in {"set", "batch"}) =>
              /\ _db = threads[t].handle
              /\ engines[threads[t].handle].attached

\* C18: when threads read self.db of a closed store together, at most one
\* of them is inside the open, and no operation fails on the lock that
\* another thread's open holds.
SingleOpenPerTransition ==
    /\ Cardinality({t \in Threads : threads[t].pc \in {"open", "assign"}}) <= 1
    /\ last.cause # "lock held"

\* C19: once reset_state has returned, self._db is not an open handle on a
\* directory the reset removed, and no get returns an entry through an
\* engine whose directory the reset removed.
ResetNotTorn ==
    ResetsInFlight = 0 =>
        /\ (_db # None => path_exists /\ engines[_db].attached)
        /\ ~(last.op = "get" /\ last.detached /\ last.ret # None)

====
